---- MODULE Spec2Model ----
(***************************************************************************)
(* A model of guides/ipynb/keras_nlp/upload.ipynb: a notebook whose code   *)
(* cells run top to bottom.  Each code statement that touches the data,    *)
(* a model object, the preset directory, the environment or a hub is one   *)
(* action.  Strings that the notebook formats or that a library parses     *)
(* (URIs, directories, preset names, user names) are sequences of          *)
(* characters, so that prefixes and path segments are computed.            *)
(***************************************************************************)
EXTENDS Integers, Sequences, FiniteSets, TLC

(* ------------------------------ bounds -------------------------------- *)

\* The sample count of a split is within Slack of one sample or of
\* TAKE_COUNT * BATCH_SIZE samples.
Slack == 1

\* whoami() returns a name of 1..MaxNameLen characters.
MaxNameLen == 1

(* ------------------------- program constants -------------------------- *)

\* tfds.load(..., batch_size=4)
BATCH_SIZE == 4

\* imdb_train.take(100)
TAKE_COUNT == 100

\* Classifier.from_preset("bert_tiny_en_uncased", num_classes=2)
NUM_CLASSES == 2

KAGGLE_SCHEME == <<"k", "a", "g", "g", "l", "e", ":", "/", "/">>

HF_SCHEME == <<"h", "f", ":", "/", "/">>

\* the literal tail of the f-string kaggle_uri
GPT2_KAGGLE_PATH == <<"/", "g", "p", "t", "2", "/", "k", "e", "r", "a", "s", "/", "g", "p", "t", "2", "_", "i", "m", "d", "b">>

\* the literal tail of the f-string hf_uri
HF_PATH == <<"/", "g", "p", "t", "2", "_", "i", "m", "d", "b">>

\* the literal tail of the f-string of the classifier upload
BERT_KAGGLE_PATH == <<"/", "b", "e", "r", "t", "/", "k", "e", "r", "a", "s", "/", "b", "e", "r", "t", "_", "t", "i", "n", "y", "_", "i", "m", "d", "b">>

GPT2_DIR == <<".", "/", "g", "p", "t", "2", "_", "i", "m", "d", "b">>

BERT_DIR == <<".", "/", "b", "e", "r", "t", "_", "t", "i", "n", "y", "_", "i", "m", "d", "b">>

GPT2_BASE_EN == <<"g", "p", "t", "2", "_", "b", "a", "s", "e", "_", "e", "n">>

BERT_TINY_EN_UNCASED == <<"b", "e", "r", "t", "_", "t", "i", "n", "y", "_", "e", "n", "_", "u", "n", "c", "a", "s", "e", "d">>

\* The names the two login checks look up in os.environ.
CredentialVars == {"KAGGLE_USERNAME", "KAGGLE_KEY", "HF_USERNAME", "HF_TOKEN"}

(* ------------------------------ strings ------------------------------- *)

Min(a, b) == IF a <= b THEN a ELSE b

StartsWith(s, p) == Len(s) >= Len(p) /\ SubSeq(s, 1, Len(p)) = p

\* s without its first n characters
Drop(s, n) == SubSeq(s, n + 1, Len(s))

\* Position of the first sep in s, 0 when there is none.
IndexOf(s, sep) ==
    IF \E i \in 1..Len(s) : s[i] = sep
    THEN CHOOSE i \in 1..Len(s) : s[i] = sep /\ \A j \in 1..(i - 1) : s[j] # sep
    ELSE 0

RECURSIVE Split(_, _)
\* str.split(sep): the segments of s between the separators
Split(s, sep) ==
    LET i == IndexOf(s, sep)
    IN  IF i = 0 THEN <<s>>
        ELSE <<SubSeq(s, 1, i - 1)>> \o Split(Drop(s, i), sep)

\* The names an account can have: 1..MaxNameLen characters, none of them "/".
NameChars == {"a", "k"}

Usernames == UNION {[1..n -> NameChars] : n \in 1..MaxNameLen}

(* ------------------------------ datasets ------------------------------ *)

NoData == [split |-> "none", elems |-> "none", batches |-> <<>>]

\* Dataset.batch(b) over n samples: full batches, then the remainder.
Batched(n, b) ==
    [i \in 1..((n + b - 1) \div b) |-> IF i * b <= n THEN b ELSE n - (i - 1) * b]

\* One split of tfds.load("imdb_reviews", as_supervised=True, batch_size=b)
TfdsSplit(split, n, b) ==
    [split |-> split, elems |-> "text_label", batches |-> Batched(n, b)]

TakeAll(ds, n) == ds

\* Dataset.take(n): the first n elements (batches) of ds
Take(ds, n) == [ds EXCEPT !.batches = SubSeq(ds.batches, 1, Min(n, Len(ds.batches)))]

\* Dataset.map(lambda x, y: x): the text of every element, labels dropped
MapDropLabels(ds) == [ds EXCEPT !.elems = "text"]

RECURSIVE Sum(_)
Sum(s) == IF s = <<>> THEN 0 ELSE s[1] + Sum(Tail(s))

\* The sizes the training split can have: never empty, below and above the cut.
SampleCounts ==
    (1..(1 + Slack)) \cup ((TAKE_COUNT * BATCH_SIZE - Slack)..(TAKE_COUNT * BATCH_SIZE + Slack))

(* ------------------------------- models ------------------------------- *)

NoModel == [task |-> "none", preset |-> <<>>, num_classes |-> 0, fitted |-> <<>>]

NoBackbone == [preset |-> <<>>, fitted |-> <<>>]

NoTokenizer == [preset |-> <<>>]

\* What a preset directory holds; saved = FALSE: nothing was saved there.
NoPreset == [saved |-> FALSE, task |-> "none", num_classes |-> 0,
             backbone |-> NoBackbone, tokenizer |-> NoTokenizer]

BuiltinPresets == {GPT2_BASE_EN, BERT_TINY_EN_UNCASED}

\* task.backbone: the architecture of the preset and the weights, which
\* are the preset's as changed by the fit calls so far.
BackboneOf(m) == [preset |-> m.preset, fitted |-> m.fitted]

\* task.preprocessor.tokenizer: the vocabulary of the preset; fit leaves it alone.
TokenizerOf(m) == [preset |-> m.preset]

\* model.fit(ds): the weights now depend on ds too
Fit(m, ds) == [m EXCEPT !.fitted = Append(@, ds)]

\* task.save_to_preset(dir): the task's configuration, its backbone
\* (configuration and weights) and its tokenizer's assets, written to dir.
SavedPreset(m) ==
    [saved |-> TRUE, task |-> m.task, num_classes |-> m.num_classes,
     backbone |-> BackboneOf(m), tokenizer |-> TokenizerOf(m)]

\* Task.from_preset(arg): arg is a directory holding a preset, or the
\* name of a built-in preset (pristine weights).
TaskFromPreset(task, arg, num_classes, files) ==
    IF arg \in DOMAIN files /\ files[arg].saved
    THEN [task |-> files[arg].task, preset |-> files[arg].backbone.preset,
          num_classes |-> files[arg].num_classes,
          fitted |-> files[arg].backbone.fitted]
    ELSE IF arg \in BuiltinPresets
    THEN [task |-> task, preset |-> arg, num_classes |-> num_classes, fitted |-> <<>>]
    ELSE NoModel

\* Backbone.from_preset(arg)
BackboneFromPreset(arg, files) ==
    IF arg \in DOMAIN files /\ files[arg].saved THEN files[arg].backbone
    ELSE IF arg \in BuiltinPresets THEN [preset |-> arg, fitted |-> <<>>]
    ELSE NoBackbone

\* Tokenizer.from_preset(arg)
TokenizerFromPreset(arg, files) ==
    IF arg \in DOMAIN files /\ files[arg].saved THEN files[arg].tokenizer
    ELSE IF arg \in BuiltinPresets THEN [preset |-> arg]
    ELSE NoTokenizer

(* ------------------------------- URIs --------------------------------- *)

\* The scheme left out of the f-string.
KaggleGpt2UriNoScheme(username) == username \o GPT2_KAGGLE_PATH

\* f"kaggle://{kaggle_username}/gpt2/keras/gpt2_imdb"
KaggleGpt2Uri(username) == KAGGLE_SCHEME \o username \o GPT2_KAGGLE_PATH

\* The Kaggle scheme pasted into the Hugging Face f-string.
HfUriKaggleScheme(username) == KAGGLE_SCHEME \o username \o HF_PATH

\* f"hf://{hf_username}/gpt2_imdb"
HfUri(username) == HF_SCHEME \o username \o HF_PATH

\* The framework segment left out of the f-string.
KaggleBertUriNoFramework(username) ==
    KAGGLE_SCHEME \o username \o <<"/", "b", "e", "r", "t">> \o <<"/", "b", "e", "r", "t", "_", "t", "i", "n", "y", "_", "i", "m", "d", "b">>

\* f"kaggle://{kaggle_username}/bert/keras/bert_tiny_imdb"
KaggleBertUri(username) == KAGGLE_SCHEME \o username \o BERT_KAGGLE_PATH

(* --------------------------- login checks ----------------------------- *)

\* The condition written with "and" in place of "or".
KaggleCredentialsBothMissing(env) == "KAGGLE_USERNAME" \notin env /\ "KAGGLE_KEY" \notin env

\* "KAGGLE_USERNAME" not in os.environ or "KAGGLE_KEY" not in os.environ
KaggleCredentialsMissing(env) == "KAGGLE_USERNAME" \notin env \/ "KAGGLE_KEY" \notin env

\* "HF_USERNAME" not in os.environ or "HF_TOKEN" not in os.environ
HfCredentialsMissing(env) == "HF_USERNAME" \notin env \/ "HF_TOKEN" \notin env

(* ------------------------------- state -------------------------------- *)

VARIABLES
    pc,                 \* index in Program of the next statement to run
    environ,            \* the names that are keys of os.environ
    kaggle_json,        \* whether ~/.kaggle/kaggle.json exists
    logged_in,          \* the hubs an interactive login was made to
    files,              \* preset directory -> what it holds
    hub,                \* the (uri, preset) pairs uploaded so far
    trace,              \* the operations executed so far, in order
    imdb_train, imdb_test, imdb_train_reviews,
    causal_lm, preset_dir, backbone, tokenizer,
    kaggle_username, kaggle_uri, hf_username, hf_uri,
    classifier

dataVars == <<imdb_train, imdb_test, imdb_train_reviews>>

lmVars == <<causal_lm, backbone, tokenizer>>

uriVars == <<kaggle_username, kaggle_uri, hf_username, hf_uri>>

hostVars == <<environ, kaggle_json, logged_in>>

vars == <<pc, environ, kaggle_json, logged_in, files, hub, trace, imdb_train, imdb_test,
          imdb_train_reviews, causal_lm, preset_dir, backbone, tokenizer,
          kaggle_username, kaggle_uri, hf_username, hf_uri, classifier>>

\* One executed operation.  Fields an operation does not have keep these values.
Ev(fn) == [fn |-> fn, hub |-> "none", arg |-> <<>>, dir |-> <<>>,
           data |-> NoData, model |-> NoModel]

\* The reload cell moved behind the two upload cells.
ProgramReloadLast ==
    << "Install", "SetBackend", "LoadData", "TakeSubset", "LoadCausalLM",
       "DropLabels", "FitCausalLM", "SavePreset", "ListDir",
       "LoadBackbone", "LoadTokenizer",
       "KaggleLoginCheck", "KaggleWhoami", "KaggleFormatUri", "KaggleUpload",
       "HfLoginCheck", "HfWhoami", "HfFormatUri", "HfUpload", "ReloadLocal",
       "LoadClassifier", "FitClassifier", "SaveClassifier", "UploadClassifier" >>

\* The Hugging Face upload cell run before the Hugging Face login cell.
ProgramHfUploadFirst ==
    << "Install", "SetBackend", "LoadData", "TakeSubset", "LoadCausalLM",
       "DropLabels", "FitCausalLM", "SavePreset", "ListDir", "ReloadLocal",
       "LoadBackbone", "LoadTokenizer",
       "KaggleLoginCheck", "KaggleWhoami", "KaggleFormatUri", "KaggleUpload",
       "HfWhoami", "HfFormatUri", "HfUpload", "HfLoginCheck",
       "LoadClassifier", "FitClassifier", "SaveClassifier", "UploadClassifier" >>

\* The statements of the code cells, in the order of a linear run.
Program ==
    << "Install", "SetBackend", "LoadData", "TakeSubset", "LoadCausalLM",
       "DropLabels", "FitCausalLM", "SavePreset", "ListDir", "ReloadLocal",
       "LoadBackbone", "LoadTokenizer",
       "KaggleLoginCheck", "KaggleWhoami", "KaggleFormatUri", "KaggleUpload",
       "HfLoginCheck", "HfWhoami", "HfFormatUri", "HfUpload",
       "LoadClassifier", "FitClassifier", "SaveClassifier", "UploadClassifier" >>

At(stmt) == pc <= Len(Program) /\ Program[pc] = stmt

Finished == pc > Len(Program)

Init ==
    /\ pc = 1
    /\ environ \in SUBSET CredentialVars
    /\ kaggle_json \in BOOLEAN
    /\ logged_in = {}
    /\ files = [d \in {GPT2_DIR, BERT_DIR} |-> NoPreset]
    /\ hub = {}
    /\ trace = <<>>
    /\ imdb_train = NoData
    /\ imdb_test = NoData
    /\ imdb_train_reviews = NoData
    /\ causal_lm = NoModel
    /\ preset_dir = <<>>
    /\ backbone = NoBackbone
    /\ tokenizer = NoTokenizer
    /\ kaggle_username = <<>>
    /\ kaggle_uri = <<>>
    /\ hf_username = <<>>
    /\ hf_uri = <<>>
    /\ classifier = NoModel

(* ------------------------------ Setup --------------------------------- *)

\* !pip install -q --upgrade keras-nlp huggingface-hub
Install ==
    /\ At("Install")
    /\ pc' = pc + 1
    /\ UNCHANGED <<hostVars, files, hub, trace, dataVars, lmVars, preset_dir, uriVars, classifier>>

\* os.environ["KERAS_BACKEND"] = "jax"; import keras_nlp
SetBackend ==
    /\ At("SetBackend")
    /\ environ' = environ \cup {"KERAS_BACKEND"}
    /\ pc' = pc + 1
    /\ UNCHANGED <<kaggle_json, logged_in, files, hub, trace, dataVars, lmVars, preset_dir, uriVars, classifier>>

(* ------------------------------- Data --------------------------------- *)

\* imdb_train, imdb_test = tfds.load("imdb_reviews", split=["train", "test"],
\*                                   as_supervised=True, batch_size=4)
LoadData ==
    /\ At("LoadData")
    /\ \E n \in SampleCounts, t \in {1, TAKE_COUNT * BATCH_SIZE + Slack} :
        /\ imdb_train' = TfdsSplit("train", n, BATCH_SIZE)
        /\ imdb_test' = TfdsSplit("test", t, BATCH_SIZE)
    /\ trace' = Append(trace, Ev("tfds.load"))
    /\ pc' = pc + 1
    /\ UNCHANGED <<hostVars, files, hub, imdb_train_reviews, lmVars, preset_dir, uriVars, classifier>>

\* imdb_train = imdb_train.take(100)
TakeSubset ==
    /\ At("TakeSubset")
    /\ imdb_train' = Take(imdb_train, TAKE_COUNT)
    /\ trace' = Append(trace, [Ev("take") EXCEPT !.data = imdb_train])
    /\ pc' = pc + 1
    /\ UNCHANGED <<hostVars, files, hub, imdb_test, imdb_train_reviews, lmVars, preset_dir, uriVars, classifier>>

(* ---------------------------- Task Upload ----------------------------- *)

\* causal_lm = keras_nlp.models.CausalLM.from_preset("gpt2_base_en")
LoadCausalLM ==
    /\ At("LoadCausalLM")
    /\ causal_lm' = TaskFromPreset("CausalLM", GPT2_BASE_EN, 0, files)
    /\ trace' = Append(trace, [Ev("CausalLM.from_preset") EXCEPT !.arg = GPT2_BASE_EN])
    /\ pc' = pc + 1
    /\ UNCHANGED <<hostVars, files, hub, dataVars, backbone, tokenizer, preset_dir, uriVars, classifier>>

\* imdb_train_reviews = imdb_train.map(lambda x, y: x)
DropLabels ==
    /\ At("DropLabels")
    /\ imdb_train_reviews' = MapDropLabels(imdb_train)
    /\ trace' = Append(trace, [Ev("map") EXCEPT !.data = imdb_train])
    /\ pc' = pc + 1
    /\ UNCHANGED <<hostVars, files, hub, imdb_train, imdb_test, lmVars, preset_dir, uriVars, classifier>>

\* causal_lm.fit(imdb_train_reviews)
FitCausalLM ==
    /\ At("FitCausalLM")
    /\ causal_lm' = Fit(causal_lm, imdb_train_reviews)
    /\ trace' = Append(trace, [Ev("fit") EXCEPT !.data = imdb_train_reviews, !.model = causal_lm])
    /\ pc' = pc + 1
    /\ UNCHANGED <<hostVars, files, hub, dataVars, backbone, tokenizer, preset_dir, uriVars, classifier>>

\* preset_dir = "./gpt2_imdb"; causal_lm.save_to_preset(preset_dir)
SavePreset ==
    /\ At("SavePreset")
    /\ preset_dir' = GPT2_DIR
    /\ files' = [files EXCEPT ![GPT2_DIR] = SavedPreset(causal_lm)]
    /\ trace' = Append(trace, [Ev("save_to_preset") EXCEPT !.dir = GPT2_DIR, !.model = causal_lm])
    /\ pc' = pc + 1
    /\ UNCHANGED <<hostVars, hub, dataVars, lmVars, uriVars, classifier>>

\* os.listdir(preset_dir)
ListDir ==
    /\ At("ListDir")
    /\ trace' = Append(trace, [Ev("os.listdir") EXCEPT !.dir = preset_dir])
    /\ pc' = pc + 1
    /\ UNCHANGED <<hostVars, files, hub, dataVars, lmVars, preset_dir, uriVars, classifier>>

\* causal_lm = from_preset("gpt2_base_en") in place of the saved directory
ReloadBasePreset ==
    /\ At("ReloadLocal")
    /\ causal_lm' = TaskFromPreset("CausalLM", GPT2_BASE_EN, 0, files)
    /\ trace' = Append(trace, [Ev("CausalLM.from_preset") EXCEPT !.arg = GPT2_BASE_EN])
    /\ pc' = pc + 1
    /\ UNCHANGED <<hostVars, files, hub, dataVars, backbone, tokenizer, preset_dir, uriVars, classifier>>

\* causal_lm = keras_nlp.models.CausalLM.from_preset(preset_dir)
ReloadLocal ==
    /\ At("ReloadLocal")
    /\ causal_lm' = TaskFromPreset("CausalLM", preset_dir, 0, files)
    /\ trace' = Append(trace, [Ev("CausalLM.from_preset") EXCEPT !.arg = preset_dir])
    /\ pc' = pc + 1
    /\ UNCHANGED <<hostVars, files, hub, dataVars, backbone, tokenizer, preset_dir, uriVars, classifier>>

\* backbone = keras_nlp.models.Backbone.from_preset(preset_dir)
LoadBackbone ==
    /\ At("LoadBackbone")
    /\ backbone' = BackboneFromPreset(preset_dir, files)
    /\ trace' = Append(trace, [Ev("Backbone.from_preset") EXCEPT !.arg = preset_dir])
    /\ pc' = pc + 1
    /\ UNCHANGED <<hostVars, files, hub, dataVars, causal_lm, tokenizer, preset_dir, uriVars, classifier>>

\* tokenizer = keras_nlp.models.Tokenizer.from_preset(preset_dir)
LoadTokenizer ==
    /\ At("LoadTokenizer")
    /\ tokenizer' = TokenizerFromPreset(preset_dir, files)
    /\ trace' = Append(trace, [Ev("Tokenizer.from_preset") EXCEPT !.arg = preset_dir])
    /\ pc' = pc + 1
    /\ UNCHANGED <<hostVars, files, hub, dataVars, causal_lm, backbone, preset_dir, uriVars, classifier>>

(* -------------------------- Upload to Kaggle -------------------------- *)

\* The hub keras_nlp.upload_preset sends a URI to: "the URI must start with
\* kaggle://" for Kaggle and "it should start with hf://" for Hugging Face.
HubOf(uri) ==
    IF StartsWith(uri, KAGGLE_SCHEME) THEN "kaggle"
    ELSE IF StartsWith(uri, HF_SCHEME) THEN "hf"
    ELSE "none"

\* keras_nlp.upload_preset(uri, dir): what dir holds, stored under uri
Uploaded(uri, dir) ==
    [service |-> HubOf(uri), uri |-> uri,
     preset |-> IF dir \in DOMAIN files THEN files[dir] ELSE NoPreset]

\* if "KAGGLE_USERNAME" not in os.environ or "KAGGLE_KEY" not in os.environ:
\*     kagglehub.login()
KaggleLoginCheck ==
    /\ At("KaggleLoginCheck")
    /\ IF KaggleCredentialsMissing(environ)
       THEN /\ logged_in' = logged_in \cup {"kaggle"}
            /\ trace' = trace \o << [Ev("login_check") EXCEPT !.hub = "kaggle"],
                                    [Ev("kagglehub.login") EXCEPT !.hub = "kaggle"] >>
       ELSE /\ logged_in' = logged_in
            /\ trace' = Append(trace, [Ev("login_check") EXCEPT !.hub = "kaggle"])
    /\ pc' = pc + 1
    /\ UNCHANGED <<environ, kaggle_json, files, hub, dataVars, lmVars, preset_dir, uriVars, classifier>>

\* kaggle_username = kagglehub.whoami()["username"]
KaggleWhoami ==
    /\ At("KaggleWhoami")
    /\ \E u \in Usernames : kaggle_username' = u
    /\ trace' = Append(trace, [Ev("whoami") EXCEPT !.hub = "kaggle"])
    /\ pc' = pc + 1
    /\ UNCHANGED <<hostVars, files, hub, dataVars, lmVars, preset_dir, kaggle_uri, hf_username, hf_uri, classifier>>

\* kaggle_uri = f"kaggle://{kaggle_username}/gpt2/keras/gpt2_imdb"
KaggleFormatUri ==
    /\ At("KaggleFormatUri")
    /\ kaggle_uri' = KaggleGpt2Uri(kaggle_username)
    /\ pc' = pc + 1
    /\ UNCHANGED <<hostVars, files, hub, trace, dataVars, lmVars, preset_dir, kaggle_username, hf_username, hf_uri, classifier>>

\* keras_nlp.upload_preset(kaggle_uri, preset_dir)
KaggleUpload ==
    /\ At("KaggleUpload")
    /\ hub' = hub \cup {Uploaded(kaggle_uri, preset_dir)}
    /\ trace' = Append(trace, [Ev("upload_preset") EXCEPT !.hub = "kaggle", !.arg = kaggle_uri, !.dir = preset_dir])
    /\ pc' = pc + 1
    /\ UNCHANGED <<hostVars, files, dataVars, lmVars, preset_dir, uriVars, classifier>>

(* ----------------------- Upload to Hugging Face ----------------------- *)

\* if "HF_USERNAME" not in os.environ or "HF_TOKEN" not in os.environ:
\*     huggingface_hub.notebook_login()
HfLoginCheck ==
    /\ At("HfLoginCheck")
    /\ IF HfCredentialsMissing(environ)
       THEN /\ logged_in' = logged_in \cup {"hf"}
            /\ trace' = trace \o << [Ev("login_check") EXCEPT !.hub = "hf"],
                                    [Ev("huggingface_hub.notebook_login") EXCEPT !.hub = "hf"] >>
       ELSE /\ logged_in' = logged_in
            /\ trace' = Append(trace, [Ev("login_check") EXCEPT !.hub = "hf"])
    /\ pc' = pc + 1
    /\ UNCHANGED <<environ, kaggle_json, files, hub, dataVars, lmVars, preset_dir, uriVars, classifier>>

\* hf_username = huggingface_hub.whoami()["name"]
HfWhoami ==
    /\ At("HfWhoami")
    /\ \E u \in Usernames : hf_username' = u
    /\ trace' = Append(trace, [Ev("whoami") EXCEPT !.hub = "hf"])
    /\ pc' = pc + 1
    /\ UNCHANGED <<hostVars, files, hub, dataVars, lmVars, preset_dir, kaggle_username, kaggle_uri, hf_uri, classifier>>

\* hf_uri = f"hf://{hf_username}/gpt2_imdb"
HfFormatUri ==
    /\ At("HfFormatUri")
    /\ hf_uri' = HfUri(hf_username)
    /\ pc' = pc + 1
    /\ UNCHANGED <<hostVars, files, hub, trace, dataVars, lmVars, preset_dir, kaggle_username, kaggle_uri, hf_username, classifier>>

\* keras_nlp.upload_preset(hf_uri, preset_dir)
HfUpload ==
    /\ At("HfUpload")
    /\ hub' = hub \cup {Uploaded(hf_uri, preset_dir)}
    /\ trace' = Append(trace, [Ev("upload_preset") EXCEPT !.hub = "hf", !.arg = hf_uri, !.dir = preset_dir])
    /\ pc' = pc + 1
    /\ UNCHANGED <<hostVars, files, dataVars, lmVars, preset_dir, uriVars, classifier>>

(* -------------------------- Classifier Upload ------------------------- *)

\* classifier = keras_nlp.models.Classifier.from_preset("bert_tiny_en_uncased", num_classes=2)
LoadClassifier ==
    /\ At("LoadClassifier")
    /\ classifier' = TaskFromPreset("Classifier", BERT_TINY_EN_UNCASED, NUM_CLASSES, files)
    /\ trace' = Append(trace, [Ev("Classifier.from_preset") EXCEPT !.arg = BERT_TINY_EN_UNCASED])
    /\ pc' = pc + 1
    /\ UNCHANGED <<hostVars, files, hub, dataVars, lmVars, preset_dir, uriVars>>

\* classifier.fit(imdb_train)
FitClassifier ==
    /\ At("FitClassifier")
    /\ classifier' = Fit(classifier, imdb_train)
    /\ trace' = Append(trace, [Ev("fit") EXCEPT !.data = imdb_train, !.model = classifier])
    /\ pc' = pc + 1
    /\ UNCHANGED <<hostVars, files, hub, dataVars, lmVars, preset_dir, uriVars>>

\* The save issued before preset_dir is rebound: it writes the old directory.
SaveClassifierStaleDir ==
    /\ At("SaveClassifier")
    /\ preset_dir' = BERT_DIR
    /\ files' = [files EXCEPT ![preset_dir] = SavedPreset(classifier)]
    /\ trace' = Append(trace, [Ev("save_to_preset") EXCEPT !.dir = preset_dir, !.model = classifier])
    /\ pc' = pc + 1
    /\ UNCHANGED <<hostVars, hub, dataVars, lmVars, uriVars, classifier>>

\* preset_dir = "./bert_tiny_imdb"; classifier.save_to_preset(preset_dir)
SaveClassifier ==
    /\ At("SaveClassifier")
    /\ preset_dir' = BERT_DIR
    /\ files' = [files EXCEPT ![BERT_DIR] = SavedPreset(classifier)]
    /\ trace' = Append(trace, [Ev("save_to_preset") EXCEPT !.dir = BERT_DIR, !.model = classifier])
    /\ pc' = pc + 1
    /\ UNCHANGED <<hostVars, hub, dataVars, lmVars, uriVars, classifier>>

\* keras_nlp.upload_preset(f"kaggle://{kaggle_username}/bert/keras/bert_tiny_imdb", preset_dir)
UploadClassifier ==
    /\ At("UploadClassifier")
    /\ hub' = hub \cup {Uploaded(KaggleBertUri(kaggle_username), preset_dir)}
    /\ trace' = Append(trace, [Ev("upload_preset") EXCEPT !.hub = "kaggle",
                                  !.arg = KaggleBertUri(kaggle_username), !.dir = preset_dir])
    /\ pc' = pc + 1
    /\ UNCHANGED <<hostVars, files, dataVars, lmVars, preset_dir, uriVars, classifier>>

Next ==
    \/ Install \/ SetBackend \/ LoadData \/ TakeSubset
    \/ LoadCausalLM \/ DropLabels \/ FitCausalLM \/ SavePreset \/ ListDir
    \/ ReloadLocal \/ LoadBackbone \/ LoadTokenizer
    \/ KaggleLoginCheck \/ KaggleWhoami \/ KaggleFormatUri \/ KaggleUpload
    \/ HfLoginCheck \/ HfWhoami \/ HfFormatUri \/ HfUpload
    \/ LoadClassifier \/ FitClassifier \/ SaveClassifier \/ UploadClassifier

Spec == Init /\ [][Next]_vars

(* ====================================================================== *)
(* Properties                                                              *)
(* ====================================================================== *)

Events == 1..Len(trace)

\* The position of a statement in the notebook, and whether it has run.
PcOf(stmt) == CHOOSE i \in 1..Len(Program) : Program[i] = stmt

Done(stmt) == pc > PcOf(stmt)

Uploads == {j \in Events : trace[j].fn = "upload_preset"}

Fits == {j \in Events : trace[j].fn = "fit"}

Called(fn) == \E i \in Events : trace[i].fn = fn

\* The path segments of a URI behind its scheme.
Segments(uri, scheme) == Split(Drop(uri, Len(scheme)), "/")

(* ---------------------------------------------------------------------- *)
\* C1: every upload_preset(uri, preset_dir) call is preceded by a
\* save_to_preset call on the directory preset_dir names at the upload.
SavedBeforeUpload ==
    \A j \in Uploads :
        \E i \in 1..(j - 1) :
            trace[i].fn = "save_to_preset" /\ trace[i].dir = trace[j].dir

\* All three uploads were issued, the last one for the classifier's directory.
AllUploadsIssued ==
    /\ Finished
    /\ Cardinality(Uploads) = 3
    /\ trace[Len(trace)].fn = "upload_preset"
    /\ trace[Len(trace)].dir = BERT_DIR
    /\ files[GPT2_DIR].saved /\ files[BERT_DIR].saved

(* ---------------------------------------------------------------------- *)
\* The stage of the pipeline an executed operation belongs to.
StageOf(e) ==
    IF e.fn \in {"tfds.load", "take"} THEN "data"
    ELSE IF e.fn \in {"map", "fit"} THEN "fit"
    ELSE IF e.fn \in {"save_to_preset", "os.listdir"} THEN "save"
    ELSE IF e.fn \in {"login_check", "kagglehub.login",
                      "huggingface_hub.notebook_login", "whoami"} THEN "auth"
    ELSE IF e.fn = "upload_preset" THEN "upload"
    ELSE IF e.arg \in BuiltinPresets THEN "model"
    ELSE "reload"

\* The operations of the causal-LM pipeline: those before the classifier's.
LmLen ==
    LET first == {k \in Events : trace[k].fn = "Classifier.from_preset"}
    IN  IF first = {} THEN Len(trace)
        ELSE (CHOOSE k \in first : \A m \in first : k <= m) - 1

LmEvents == 1..LmLen

RankIn(order, stage) == CHOOSE r \in 1..Len(order) : order[r] = stage

\* No operation of a later stage ran before one of an earlier stage; the
\* authentication and the upload of one hub are not ordered against those
\* of the other hub.  So for each hub, along the operations that are that
\* hub's or no hub's, the rank of the stage never decreases.
StagesOrdered(order) ==
    \A h \in {"kaggle", "hf"} :
        LET OfHub(e) == e.hub \in {h, "none"}
            ops == SelectSeq(SubSeq(trace, 1, LmLen), OfHub)
        IN  \A k \in 1..(Len(ops) - 1) :
                RankIn(order, StageOf(ops[k])) <= RankIn(order, StageOf(ops[k + 1]))

Reloads == {i \in LmEvents : StageOf(trace[i]) = "reload"}

\* C2 as stated: the stages run in the order load data, load model, fit,
\* save, authenticate, upload, reload, and the reload loads from the hub.
ReloadAfterUploadFromHub ==
    /\ StagesOrdered(<<"data", "model", "fit", "save", "auth", "upload", "reload">>)
    /\ \A i \in Reloads : HubOf(trace[i].arg) # "none"

\* C2: the stages run in the order load data, load model, fit, save,
\* reload, authenticate, upload (per hub), and every from_preset that runs
\* after the save loads the local directory that was saved, never a hub URI.
ReloadLocalBeforeUpload ==
    /\ StagesOrdered(<<"data", "model", "fit", "save", "reload", "auth", "upload">>)
    /\ \A i \in Reloads :
        /\ HubOf(trace[i].arg) = "none"
        /\ \E k \in 1..(i - 1) :
            trace[k].fn = "save_to_preset" /\ trace[k].dir = trace[i].arg

\* The causal-LM pipeline has run to its end: reloads and both uploads happened.
LmPipelineComplete ==
    /\ pc = PcOf("LoadClassifier")
    /\ Cardinality(Reloads) = 3
    /\ Cardinality(Uploads) = 2
    /\ \E i \in Reloads : trace[i].fn = "CausalLM.from_preset"

(* ---------------------------------------------------------------------- *)
\* C3: every upload to a hub is preceded by that hub's login check and by
\* that hub's whoami; after the check the hub has credentials from the
\* environment or from an interactive login.
LoginCheckBeforeUpload ==
    \A j \in Uploads :
        LET h == HubOf(trace[j].arg)
        IN  /\ \E i \in 1..(j - 1) : trace[i].fn = "login_check" /\ trace[i].hub = h
            /\ \E i \in 1..(j - 1) : trace[i].fn = "whoami" /\ trace[i].hub = h
            /\ h = "kaggle" =>
                 ({"KAGGLE_USERNAME", "KAGGLE_KEY"} \subseteq environ \/ "kaggle" \in logged_in)
            /\ h = "hf" =>
                 ({"HF_USERNAME", "HF_TOKEN"} \subseteq environ \/ "hf" \in logged_in)

\* Both hubs and the classifier were uploaded to, one hub through an
\* interactive login and the other through the environment.
UploadsAfterBothKindsOfLogin ==
    /\ Finished
    /\ {HubOf(trace[j].arg) : j \in Uploads} = {"kaggle", "hf"}
    /\ HubOf(trace[Len(trace)].arg) = "kaggle"
    /\ logged_in = {"hf"}

KaggleUriFormat(uri, user, framework) ==
    /\ StartsWith(uri, KAGGLE_SCHEME)
    /\ LET seg == Segments(uri, KAGGLE_SCHEME)
       IN  /\ Len(seg) = 4
           /\ seg[1] = user
           /\ seg[2] # <<>>
           /\ seg[3] = framework
           /\ seg[4] # <<>>

KaggleUploads == {j \in Uploads : trace[j].hub = "kaggle"}

HubUriFormat(uri, scheme, user) ==
    /\ StartsWith(uri, scheme)
    /\ LET seg == Segments(uri, scheme)
       IN  /\ Len(seg) = 2
           /\ seg[1] = user
           /\ seg[2] # <<>>

HfUploads == {j \in Uploads : trace[j].hub = "hf"}

SavedModel(dir) ==
    LET saves == {i \in Events : trace[i].fn = "save_to_preset" /\ trace[i].dir = dir}
    IN  trace[CHOOSE i \in saves : \A k \in saves : k <= i].model

LoginCalled(h) ==
    \E i \in Events :
        /\ trace[i].fn \in {"kagglehub.login", "huggingface_hub.notebook_login"}
        /\ trace[i].hub = h

\* C8 as stated: each interactive login is called if and only if one of
\* the hub's two environment variables is absent, and it is not called
\* when both variables are set or, for Kaggle, ~/.kaggle/kaggle.json exists.
LoginOnlyWithoutCredentials ==
    /\ Done("KaggleLoginCheck") =>
        /\ LoginCalled("kaggle") <=>
             ("KAGGLE_USERNAME" \notin environ \/ "KAGGLE_KEY" \notin environ)
        /\ ({"KAGGLE_USERNAME", "KAGGLE_KEY"} \subseteq environ \/ kaggle_json)
             => ~LoginCalled("kaggle")
    /\ Done("HfLoginCheck") =>
        /\ LoginCalled("hf") <=>
             ("HF_USERNAME" \notin environ \/ "HF_TOKEN" \notin environ)
        /\ {"HF_USERNAME", "HF_TOKEN"} \subseteq environ => ~LoginCalled("hf")

\* C8: each interactive login is called if and only if one of the hub's
\* two environment variables is absent, whether or not ~/.kaggle/kaggle.json
\* exists; it is not called when both variables are set, and never before
\* the hub's check.
LoginIffEnvironmentIncomplete ==
    /\ Done("KaggleLoginCheck") =>
        (LoginCalled("kaggle") <=>
            ("KAGGLE_USERNAME" \notin environ \/ "KAGGLE_KEY" \notin environ))
    /\ Done("HfLoginCheck") =>
        (LoginCalled("hf") <=>
            ("HF_USERNAME" \notin environ \/ "HF_TOKEN" \notin environ))
    /\ ~Done("KaggleLoginCheck") => ~LoginCalled("kaggle")
    /\ ~Done("HfLoginCheck") => ~LoginCalled("hf")

\* kagglehub.login() was called with kaggle.json present and one of the two
\* Kaggle variables set; notebook_login() was not called.
LoginDespiteKaggleJson ==
    /\ Done("HfLoginCheck")
    /\ kaggle_json
    /\ "KAGGLE_USERNAME" \in environ /\ "KAGGLE_KEY" \notin environ
    /\ LoginCalled("kaggle")
    /\ ~LoginCalled("hf")

(* ---------------------------------------------------------------------- *)
IsPrefix(s, t) == Len(s) <= Len(t) /\ SubSeq(t, 1, Len(s)) = s

\* C9: the dataset of every fit call is the training split cut by
\* take(100): at most 100 batches of at most 4 samples, at most 400 samples,
\* a prefix of the loaded training batches; the causal LM gets text only,
\* the classifier gets (text, label) pairs; the test split is never fitted on.
FitOnTruncatedTrain ==
    \A j \in Fits :
        LET d == trace[j].data
        IN  /\ d.split = "train"
            /\ Len(d.batches) <= 100
            /\ \A b \in 1..Len(d.batches) : d.batches[b] \in 1..4
            /\ Sum(d.batches) <= 400
            /\ \E i \in 1..(j - 1) :
                trace[i].fn = "take" /\ IsPrefix(d.batches, trace[i].data.batches)
            /\ trace[j].model.task = "CausalLM" => d.elems = "text"
            /\ trace[j].model.task = "Classifier" => d.elems = "text_label"
            /\ trace[j].model.task \in {"CausalLM", "Classifier"}

\* Both fits ran on a training split that had more than 100 batches, the
\* test split not being empty.
BothFitsOnCutData ==
    /\ Cardinality(Fits) = 2
    /\ \E i \in Events : trace[i].fn = "take" /\ Len(trace[i].data.batches) > 100
    /\ Len(imdb_train.batches) = 100
    /\ Len(imdb_test.batches) > 100

====
